---- MODULE Spec2Model ----
(***************************************************************************)
(* Model of config_parser.py: the position-tracking recursive-descent      *)
(* Parser, the Interpreter with its single environment, and main()'s       *)
(* two-phase run (parse everything, then evaluate statement by statement). *)
(*                                                                         *)
(* The source text is a sequence of one-character strings; the Python      *)
(* offset self.pos is 0-based, so text[self.pos] is text[pos + 1] here.    *)
(***************************************************************************)
EXTENDS Integers, Sequences, FiniteSets, TLC

VARIABLES
    text,        \* Parser.text: the source handed to Parser(content)
    pos,         \* Parser.pos
    line,        \* Parser.line
    col,         \* Parser.col
    statements,  \* the list parse_all is building / main's ast
    phase,       \* where main() is: "parse", "eval", or a final phase
    variables,   \* Interpreter.variables
    idx,         \* number of statements main's for loop has evaluated
    out,         \* standard output: one entry per print
    err          \* standard error: the message of the exception caught

vars == <<text, pos, line, col, statements, phase, variables, idx, out, err>>

----------------------------------------------------------------------------
(* Bounds of the model.                                                    *)

MaxStmts == 3    \* statements per generated program
MaxLen == 5      \* characters per generated lexical text
MaxPieces == 4   \* pieces after the brace of a generated dict text
MaxTail == 3     \* pieces put in a value position
MaxAst == 3      \* statements per tree list handed to the Interpreter
MaxOps == 3      \* pieces per text the single parser operations run on

----------------------------------------------------------------------------
(* Characters.                                                             *)

DigitSeq == <<"0", "1", "2", "3", "4", "5", "6", "7", "8", "9">>

IdentSeq == <<"_", "a", "b", "c", "d", "e", "f", "g", "h", "i", "j", "k", "l",
              "m", "n", "o", "p", "q", "r", "s", "t", "u", "v", "w", "x", "y",
              "z">>

Range(s) == {s[i] : i \in DOMAIN s}

isspace(c) == c \in {" ", "\t", "\n", "\r"}

isdigit(c) == c \in Range(DigitSeq)

isident(c) == c \in Range(IdentSeq)

\* code point order of the identifier characters ('_' sorts before 'a')
Ord(c) == CHOOSE i \in DOMAIN IdentSeq : IdentSeq[i] = c

DigitVal(c) == (CHOOSE i \in DOMAIN DigitSeq : DigitSeq[i] = c) - 1

RECURSIVE int(_)
int(s) == IF s = <<>> THEN 0
          ELSE 10 * int(SubSeq(s, 1, Len(s) - 1)) + DigitVal(s[Len(s)])

----------------------------------------------------------------------------
(* AST nodes and runtime values.  Python's int, str and dict and the       *)
(* tagged tuples ('let', name, value), ('q', expr), ('var', name) are      *)
(* records of one shape, so that any two of them can be compared.          *)

Blank == [tag |-> "None", num |-> 0, str |-> <<>>, name |-> <<>>,
          ents |-> <<>>, arg |-> <<>>]

None == Blank

IntNode(n) == [Blank EXCEPT !.tag = "int", !.num = n]

StrNode(s) == [Blank EXCEPT !.tag = "str", !.str = s]

\* a dict: its entries [key, val] in insertion order, keys unique
DictNode(e) == [Blank EXCEPT !.tag = "dict", !.ents = e]

VarNode(n) == [Blank EXCEPT !.tag = "var", !.name = n]

LetNode(n, v) == [Blank EXCEPT !.tag = "let", !.name = n, !.arg = <<v>>]

QNode(v) == [Blank EXCEPT !.tag = "q", !.arg = <<v>>]

IsTuple(n) == n.tag \notin {"None", "int", "str", "dict"}

Keys(e) == [i \in DOMAIN e |-> e[i].key]

\* result[key] = value on a dict that moves an overwritten key to the end
DictSet_move_to_end(e, key, value) ==
    Append(SelectSeq(e, LAMBDA x : x.key # key), [key |-> key, val |-> value])

\* result[key] = value on an insertion-ordered dict
DictSet(e, key, value) ==
    IF \E i \in DOMAIN e : e[i].key = key
    THEN [i \in DOMAIN e |-> IF e[i].key = key
                             THEN [key |-> key, val |-> value] ELSE e[i]]
    ELSE Append(e, [key |-> key, val |-> value])

----------------------------------------------------------------------------
(* The Parser.  Every method takes the cursor p = [pos, line, col] it      *)
(* starts from and returns the cursor it leaves, with the value returned   *)
(* or the error raised.                                                    *)

Cursor(ps, ln, cl) == [pos |-> ps, line |-> ln, col |-> cl]

Ok(p, val) == [ok |-> TRUE, p |-> p, val |-> val, what |-> ""]

\* self.error(message): raises with the line and column of the cursor
error(p, message) == [ok |-> FALSE, p |-> p, val |-> None, what |-> message]

At(i) == text[i + 1]

\* text.startswith(prefix, i)
startswith(prefix, i) ==
    /\ i + Len(prefix) <= Len(text)
    /\ \A k \in 1..Len(prefix) : text[i + k] = prefix[k]

RECURSIVE skip_whitespace(_)
skip_whitespace(p) ==
    IF p.pos < Len(text) /\ isspace(At(p.pos))
    THEN IF At(p.pos) = "\n"
         THEN skip_whitespace(Cursor(p.pos + 1, p.line + 1, 1))
         ELSE skip_whitespace(Cursor(p.pos + 1, p.line, p.col + 1))
    ELSE p

\* the literal a fixed pattern stands for
Literal(pattern) ==
    CASE pattern = "\"" -> <<"\"">>
      [] pattern = "{" -> <<"{">>
      [] pattern = "}" -> <<"}">>
      [] pattern = "," -> <<",">>
      [] pattern = "=>" -> <<"=", ">">>
      [] pattern = "=" -> <<"=">>
      [] pattern = "let" -> <<"l", "e", "t">>
      [] pattern = "q\\(" -> <<"q", "(">>
      [] pattern = "\\)" -> <<")">>
      [] pattern = "\\$" -> <<"$">>
      [] pattern = "\\[" -> <<"[">>
      [] pattern = "\\]" -> <<"]">>

\* length of the longest run of characters of class cls starting at offset i
RECURSIVE RunLen(_, _)
RunLen(cls, i) ==
    IF i < Len(text) /\ At(i) \in cls THEN 1 + RunLen(cls, i + 1) ELSE 0

\* re.match(pattern, text[i:]): the length of the match, -1 for no match
re_match(pattern, i) ==
    CASE pattern = "\\d+" ->
           IF RunLen(Range(DigitSeq), i) = 0 THEN -1
           ELSE RunLen(Range(DigitSeq), i)
      [] pattern = "[_a-z]+" ->
           IF RunLen(Range(IdentSeq), i) = 0 THEN -1
           ELSE RunLen(Range(IdentSeq), i)
      [] OTHER ->
           IF startswith(Literal(pattern), i) THEN Len(Literal(pattern))
           ELSE -1

\* K of the value of v: v is evaluated once, before K
With(v, K(_)) == CHOOSE x \in {K(m) : m \in {v}} : TRUE

match(p, pattern) ==
    With(skip_whitespace(p), LAMBDA s :
    With(re_match(pattern, s.pos), LAMBDA n :
        IF n < 0 THEN error(s, pattern)
        ELSE Ok(Cursor(s.pos + n, s.line, s.col + n),
                SubSeq(text, s.pos + 1, s.pos + n))))

\* a raised error propagates: the rest of the method, K, runs only after a
\* call that returned
Then(r, K(_)) == With(r, LAMBDA m : IF m.ok THEN K(m) ELSE m)

parse_number(p) ==
    Then(match(p, "\\d+"), LAMBDA m : Ok(m.p, IntNode(int(m.val))))

parse_identifier(p) == match(p, "[_a-z]+")

\* the loop of parse_string without its backslash branch: any quote ends it
RECURSIVE string_scan_no_escape(_)
string_scan_no_escape(i) ==
    IF i < Len(text) /\ At(i) # "\""
    THEN string_scan_no_escape(i + 1)
    ELSE i

\* the while loop of parse_string: the offset at which it stops
\* the loop without its test after the step over a backslash
RECURSIVE string_scan_overrun(_)
string_scan_overrun(i) ==
    IF i < Len(text) /\ At(i) # "\""
    THEN IF At(i) = "\\"
         THEN string_scan_overrun(i + 2)
         ELSE string_scan_overrun(i + 1)
    ELSE i

RECURSIVE string_scan(_)
string_scan(i) ==
    IF i < Len(text) /\ At(i) # "\""
    THEN IF At(i) = "\\"
         THEN IF i + 1 >= Len(text) THEN i + 1 ELSE string_scan(i + 2)
         ELSE string_scan(i + 1)
    ELSE i

\* parse_string without its test after the loop: the closing match is tried
\* wherever the loop stopped
parse_string_unchecked(p) ==
    Then(match(p, "\""), LAMBDA m :
        With(string_scan(m.p.pos), LAMBDA stop :
            Then(match(Cursor(stop, m.p.line, m.p.col), "\""), LAMBDA c :
                Ok(c.p, StrNode(SubSeq(text, m.p.pos + 1, stop))))))

\* parse_string moves self.pos alone through the body of the literal
parse_string(p) ==
    Then(match(p, "\""), LAMBDA m :
        With(string_scan(m.p.pos), LAMBDA stop :
            IF stop >= Len(text) \/ At(stop) # "\""
            THEN error(Cursor(stop, m.p.line, m.p.col), "unterminated")
            ELSE Then(match(Cursor(stop, m.p.line, m.p.col), "\""),
                      LAMBDA c :
                     Ok(c.p, StrNode(SubSeq(text, m.p.pos + 1, stop))))))

parse_var(p) ==
    Then(match(p, "\\$"), LAMBDA a :
    Then(match(a.p, "\\["), LAMBDA b :
    Then(parse_identifier(b.p), LAMBDA n :
    Then(match(n.p, "\\]"), LAMBDA c :
        Ok(c.p, VarNode(n.val))))))

RECURSIVE parse_value(_)
RECURSIVE parse_dict_loop(_, _, _)

\* the while loop of parse_dict, from its test on
\* the loop with a comma allowed before the closing brace
parse_dict_loop_trailing_comma(p, result, first) ==
    IF p.pos < Len(text)
    THEN With(skip_whitespace(p), LAMBDA s :
             IF s.pos < Len(text) /\ At(s.pos) = "}"
             THEN Ok(s, result)
             ELSE Then(IF first THEN Ok(s, <<>>) ELSE match(s, ","), LAMBDA c :
                  With(skip_whitespace(c.p), LAMBDA t :
                  IF ~first /\ t.pos < Len(text) /\ At(t.pos) = "}"
                  THEN Ok(t, result)
                  ELSE
                  Then(parse_identifier(c.p), LAMBDA k :
                  Then(match(k.p, "=>"), LAMBDA a :
                  Then(parse_value(a.p), LAMBDA v :
                  With(DictSet(result, k.val, v.val), LAMBDA d :
                      parse_dict_loop(v.p, d, FALSE))))))))
    ELSE Ok(p, result)

parse_dict_loop(p, result, first) ==
    IF p.pos < Len(text)
    THEN With(skip_whitespace(p), LAMBDA s :
             IF s.pos < Len(text) /\ At(s.pos) = "}"
             THEN Ok(s, result)
             ELSE Then(IF first THEN Ok(s, <<>>) ELSE match(s, ","), LAMBDA c :
                  Then(parse_identifier(c.p), LAMBDA k :
                  Then(match(k.p, "=>"), LAMBDA a :
                  Then(parse_value(a.p), LAMBDA v :
                  With(DictSet(result, k.val, v.val), LAMBDA d :
                      parse_dict_loop(v.p, d, FALSE)))))))
    ELSE Ok(p, result)

parse_dict(p) ==
    Then(match(p, "{"), LAMBDA m :
    Then(parse_dict_loop(m.p, <<>>, TRUE), LAMBDA l :
    Then(match(l.p, "}"), LAMBDA c :
        Ok(c.p, DictNode(l.val)))))

\* parse_value with a sign allowed before the digits of a number
parse_value_signed(p) ==
    With(skip_whitespace(p), LAMBDA s :
        IF s.pos >= Len(text) THEN error(s, "eof")
        ELSE IF isdigit(At(s.pos)) THEN parse_number(s)
        ELSE IF At(s.pos) = "-"
             THEN parse_number(Cursor(s.pos + 1, s.line, s.col + 1))
        ELSE IF At(s.pos) = "\"" THEN parse_string(s)
        ELSE IF At(s.pos) = "{" THEN parse_dict(s)
        ELSE IF At(s.pos) = "$" THEN parse_var(s)
        ELSE error(s, "value"))

parse_value(p) ==
    With(skip_whitespace(p), LAMBDA s :
        IF s.pos >= Len(text) THEN error(s, "eof")
        ELSE IF isdigit(At(s.pos)) THEN parse_number(s)
        ELSE IF At(s.pos) = "\"" THEN parse_string(s)
        ELSE IF At(s.pos) = "{" THEN parse_dict(s)
        ELSE IF At(s.pos) = "$" THEN parse_var(s)
        ELSE error(s, "value"))

parse_let(p) ==
    Then(match(p, "let"), LAMBDA l :
    Then(parse_identifier(l.p), LAMBDA n :
    Then(match(n.p, "="), LAMBDA e :
    Then(parse_value(e.p), LAMBDA v :
        Ok(v.p, LetNode(n.val, v.val))))))

parse_q(p) ==
    Then(match(p, "q\\("), LAMBDA o :
    Then(parse_value(o.p), LAMBDA v :
    Then(match(v.p, "\\)"), LAMBDA c :
        Ok(c.p, QNode(v.val)))))

parse_expression(p) ==
    With(skip_whitespace(p), LAMBDA s :
        IF s.pos < Len(text) /\ At(s.pos) = "$" THEN parse_var(s)
        ELSE parse_value(s))

\* parse_statement that gives up, returning None, where no statement can
\* begin instead of raising
parse_statement_lenient(p) ==
    With(skip_whitespace(p), LAMBDA s :
        IF s.pos >= Len(text) THEN Ok(s, None)
        ELSE IF startswith(<<"l", "e", "t">>, s.pos) THEN parse_let(s)
        ELSE IF startswith(<<"q", "(">>, s.pos) THEN parse_q(s)
        ELSE IF isdigit(At(s.pos)) \/ At(s.pos) \in {"\"", "{", "$"}
             THEN parse_expression(s)
        ELSE Ok(s, None))

parse_statement(p) ==
    With(skip_whitespace(p), LAMBDA s :
        IF s.pos >= Len(text) THEN Ok(s, None)
        ELSE IF startswith(<<"l", "e", "t">>, s.pos) THEN parse_let(s)
        ELSE IF startswith(<<"q", "(">>, s.pos) THEN parse_q(s)
        ELSE parse_expression(s))

----------------------------------------------------------------------------
(* The Interpreter.  An environment is a function from names to values.   *)

NoError == [kind |-> "none", line |-> 0, col |-> 0, what |-> "", name |-> <<>>]

SyntaxError(p, what) ==
    [kind |-> "syntax", line |-> p.line, col |-> p.col, what |-> what,
     name |-> <<>>]

UndefinedError(name) == [NoError EXCEPT !.kind = "undefined", !.name = name]

UnknownNodeError == [NoError EXCEPT !.kind = "unknown_node"]

\* Bind as self.variables = {name: value}: the other bindings are dropped
Bind_reset(env, name, value) == [n \in {name} |-> value]

\* Bind as self.variables.setdefault(name, value): the first binding stays
Bind_first_wins(env, name, value) ==
    IF name \in DOMAIN env THEN env
    ELSE [n \in DOMAIN env \cup {name} |-> IF n = name THEN value ELSE env[n]]

\* self.variables[name] = value
Bind(env, name, value) ==
    [n \in DOMAIN env \cup {name} |-> IF n = name THEN value ELSE env[n]]

KeyLess(a, b) ==
    \E i \in 1..Len(a) + 1 :
        /\ \A j \in 1..i - 1 : j <= Len(b) /\ a[j] = b[j]
        /\ \/ i = Len(a) + 1 /\ Len(b) >= i
           \/ i <= Len(a) /\ i <= Len(b) /\ Ord(a[i]) < Ord(b[i])

\* sorted(mapping.items()) for unique string keys
RECURSIVE sorted(_)
sorted(e) ==
    IF e = <<>> THEN <<>>
    ELSE LET m == CHOOSE i \in DOMAIN e :
                      \A j \in DOMAIN e : j = i \/ KeyLess(e[i].key, e[j].key)
             rest == [j \in 1..Len(e) - 1 |-> IF j < m THEN e[j] ELSE e[j + 1]]
         IN  <<e[m]>> \o sorted(rest)

\* yaml.dump(result, allow_unicode=True, default_flow_style=False).rstrip():
\* the document printed, as the tree of its scalars and of its mappings'
\* entries in the order of their lines.  sort_keys is left at its default,
\* so the representer sorts every mapping by key.
RECURSIVE yaml_dump(_)
yaml_dump(data) ==
    IF data.tag = "dict"
    THEN LET e == sorted(data.ents)
         IN  DictNode([i \in DOMAIN e |->
                          [key |-> e[i].key, val |-> yaml_dump(e[i].val)]])
    ELSE data

Returned(env, o, ret) ==
    [ok |-> TRUE, err |-> NoError, variables |-> env, out |-> o, ret |-> ret]

Raised(env, o, e) ==
    [ok |-> FALSE, err |-> e, variables |-> env, out |-> o, ret |-> None]

RECURSIVE _eval_value(_, _)
RECURSIVE eval_items(_, _, _)

\* evaluate with a q that writes its document at the head of the output
evaluate_prepend(env, o, ast) ==
    IF ast = None THEN Returned(env, o, None)
    ELSE IF IsTuple(ast)
    THEN IF ast.tag = "let"
         THEN LET v == _eval_value(env, ast.arg[1])
              IN  IF v.ok THEN Returned(Bind(env, ast.name, v.ret), o, None)
                  ELSE Raised(env, o, v.err)
         ELSE IF ast.tag = "q"
         THEN LET v == _eval_value(env, ast.arg[1])
              IN  IF v.ok THEN Returned(env, <<yaml_dump(v.ret)>> \o o, None)
                  ELSE Raised(env, o, v.err)
         ELSE IF ast.tag = "var"
         THEN IF ast.name \notin DOMAIN env
              THEN Raised(env, o, UndefinedError(ast.name))
              ELSE Returned(env, o, env[ast.name])
         ELSE Raised(env, o, UnknownNodeError)
    ELSE Returned(env, o, ast)

\* evaluate with a q that starts printing before its value is resolved
evaluate_print_first(env, o, ast) ==
    IF ast = None THEN Returned(env, o, None)
    ELSE IF IsTuple(ast)
    THEN IF ast.tag = "let"
         THEN LET v == _eval_value(env, ast.arg[1])
              IN  IF v.ok THEN Returned(Bind(env, ast.name, v.ret), o, None)
                  ELSE Raised(env, o, v.err)
         ELSE IF ast.tag = "q"
         THEN LET v == _eval_value(env, ast.arg[1])
              IN  IF v.ok THEN Returned(env, Append(o, yaml_dump(v.ret)), None)
                  ELSE Raised(env, Append(o, None), v.err)
         ELSE IF ast.tag = "var"
         THEN IF ast.name \notin DOMAIN env
              THEN Raised(env, o, UndefinedError(ast.name))
              ELSE Returned(env, o, env[ast.name])
         ELSE Raised(env, o, UnknownNodeError)
    ELSE Returned(env, o, ast)

\* Interpreter.evaluate(ast) with self.variables = env and the output o so far
evaluate(env, o, ast) ==
    IF ast = None THEN Returned(env, o, None)
    ELSE IF IsTuple(ast)
    THEN IF ast.tag = "let"
         THEN LET v == _eval_value(env, ast.arg[1])
              IN  IF v.ok THEN Returned(Bind(env, ast.name, v.ret), o, None)
                  ELSE Raised(env, o, v.err)
         ELSE IF ast.tag = "q"
         THEN LET v == _eval_value(env, ast.arg[1])
              IN  IF v.ok THEN Returned(env, Append(o, yaml_dump(v.ret)), None)
                  ELSE Raised(env, o, v.err)
         ELSE IF ast.tag = "var"
         THEN IF ast.name \notin DOMAIN env
              THEN Raised(env, o, UndefinedError(ast.name))
              ELSE Returned(env, o, env[ast.name])
         ELSE Raised(env, o, UnknownNodeError)
    ELSE Returned(env, o, ast)

\* the comprehension as {k: v for k, v in value.items()}: a copy, the entry
\* values are not resolved
eval_items_copy(env, ents, acc) == Returned(env, <<>>, DictNode(ents))

\* the dict comprehension of _eval_value: entries i.. of ents, appended to acc
eval_items(env, ents, acc) ==
    IF Len(acc) = Len(ents) THEN Returned(env, <<>>, DictNode(acc))
    ELSE LET e == ents[Len(acc) + 1]
             v == _eval_value(env, e.val)
         IN  IF v.ok
             THEN eval_items(env, ents, Append(acc, [key |-> e.key, val |-> v.ret]))
             ELSE v

\* _eval_value without the dict branch: only a top-level reference is resolved
_eval_value_shallow(env, value) ==
    IF IsTuple(value) /\ value.tag = "var"
    THEN LET r == evaluate(env, <<>>, value)
         IN  IF r.ok THEN Returned(env, <<>>, r.ret) ELSE Raised(env, <<>>, r.err)
    ELSE Returned(env, <<>>, value)

_eval_value(env, value) ==
    IF value.tag = "dict" THEN eval_items(env, value.ents, <<>>)
    ELSE IF IsTuple(value) /\ value.tag = "var"
    THEN LET r == evaluate(env, <<>>, value)
         IN  IF r.ok THEN Returned(env, <<>>, r.ret) ELSE Raised(env, <<>>, r.err)
    ELSE Returned(env, <<>>, value)

----------------------------------------------------------------------------
(* The source texts the model runs on.                                     *)

\* complete statements, each followed by a newline in a generated program
StmtPool == <<
    \* let x=1
    <<"l", "e", "t", " ", "x", "=", "1">>,
    \* let x=2
    <<"l", "e", "t", " ", "x", "=", "2">>,
    \* let y={k=>$[x]}
    <<"l", "e", "t", " ", "y", "=", "{", "k", "=", ">", "$", "[", "x", "]", "}">>,
    \* q($[x])
    <<"q", "(", "$", "[", "x", "]", ")">>,
    \* q($[y])
    <<"q", "(", "$", "[", "y", "]", ")">>,
    \* q({b=>1,a=>{d=>$[x],c=>$[y]}})
    <<"q", "(", "{", "b", "=", ">", "1", ",", "a", "=", ">", "{", "d", "=", ">",
      "$", "[", "x", "]", ",", "c", "=", ">", "$", "[", "y", "]", "}", "}", ")">>,
    \* {k=>$[x]}
    <<"{", "k", "=", ">", "$", "[", "x", "]", "}">>,
    \* $[x]
    <<"$", "[", "x", "]">>,
    \* -5
    <<"-", "5">>,
    \* q({b=>1,a=>2})
    <<"q", "(", "{", "b", "=", ">", "1", ",", "a", "=", ">", "2", "}", ")">>,
    \* q("a\"b")
    <<"q", "(", "\"", "a", "\\", "\"", "b", "\"", ")">> >>

RECURSIVE Source(_)
Source(choice) ==
    IF choice = <<>> THEN <<>>
    ELSE StmtPool[Head(choice)] \o <<"\n">> \o Source(Tail(choice))

Programs ==
    {Source(c) : c \in UNION {[1..n -> DOMAIN StmtPool] : n \in 0..MaxStmts}}

LexChars == {"\"", "\\", "a", "1", " ", "\n"}

LexTexts == UNION {[1..n -> LexChars] : n \in 0..MaxLen}

----------------------------------------------------------------------------
(* main(): Parser(content).parse_all(), then Interpreter().evaluate(stmt)  *)
(* for each statement.                                                     *)

Init ==
    /\ text \in Programs \cup LexTexts
    /\ pos = 0
    /\ line = 1
    /\ col = 1
    /\ statements = <<>>
    /\ phase = "parse"
    /\ variables = <<>>
    /\ idx = 0
    /\ out = <<>>
    /\ err = NoError

Here == Cursor(pos, line, col)

MoveTo(p) ==
    /\ pos' = p.pos
    /\ line' = p.line
    /\ col' = p.col

\* one turn of parse_all's loop that appends a statement
ParseStatement ==
    /\ phase = "parse"
    /\ pos < Len(text)
    /\ LET s == skip_whitespace(Here)
           r == parse_statement(s)
       IN  /\ s.pos < Len(text)
           /\ r.ok
           /\ r.val # None
           /\ statements' = Append(statements, r.val)
           /\ MoveTo(r.p)
    /\ UNCHANGED <<text, phase, variables, idx, out, err>>

\* a parsing method raises: main prints the error and exits with status 1
ParseError ==
    /\ phase = "parse"
    /\ pos < Len(text)
    /\ LET s == skip_whitespace(Here)
           r == parse_statement(s)
       IN  /\ s.pos < Len(text)
           /\ ~r.ok
           /\ MoveTo(r.p)
           /\ err' = SyntaxError(r.p, r.what)
    /\ phase' = "parse_error"
    /\ UNCHANGED <<text, statements, variables, idx, out>>

\* parse_all's loop ends and the list is returned; main makes the Interpreter
ParseReturn ==
    /\ phase = "parse"
    /\ LET s == IF pos < Len(text) THEN skip_whitespace(Here) ELSE Here
       IN  /\ s.pos >= Len(text) \/ parse_statement(s) = Ok(s, None)
           /\ MoveTo(s)
    /\ phase' = "eval"
    /\ variables' = <<>>
    /\ UNCHANGED <<text, statements, idx, out, err>>

\* Evaluate as a streaming evaluator would run it: a statement is evaluated
\* as soon as it is parsed, before parse_all has returned
Evaluate_streaming ==
    /\ phase \in {"parse", "eval"}
    /\ idx < Len(statements)
    /\ LET r == evaluate(variables, out, statements[idx + 1])
       IN  /\ r.ok
           /\ variables' = r.variables
           /\ out' = r.out
    /\ idx' = idx + 1
    /\ UNCHANGED <<text, pos, line, col, statements, phase, err>>

\* one turn of main's for loop
Evaluate ==
    /\ phase = "eval"
    /\ idx < Len(statements)
    /\ LET r == evaluate(variables, out, statements[idx + 1])
       IN  /\ r.ok
           /\ variables' = r.variables
           /\ out' = r.out
    /\ idx' = idx + 1
    /\ UNCHANGED <<text, pos, line, col, statements, phase, err>>

\* evaluate raises: main prints the error and exits with status 1
EvalError ==
    /\ phase = "eval"
    /\ idx < Len(statements)
    /\ LET r == evaluate(variables, out, statements[idx + 1])
       IN  /\ ~r.ok
           /\ variables' = r.variables
           /\ out' = r.out
           /\ err' = r.err
    /\ phase' = "eval_error"
    /\ UNCHANGED <<text, pos, line, col, statements, idx>>

\* the for loop is over: main returns, status 0
Exit ==
    /\ phase = "eval"
    /\ idx = Len(statements)
    /\ phase' = "done"
    /\ UNCHANGED <<text, pos, line, col, statements, variables, idx, out, err>>

Next ==
    \/ ParseStatement
    \/ ParseError
    \/ ParseReturn
    \/ Evaluate
    \/ EvalError
    \/ Exit

Spec == Init /\ [][Next]_vars

----------------------------------------------------------------------------
(* What the statements of a program mean, read off the statement list      *)
(* alone (no environment): the reference the claims are checked against.   *)

\* number of q directives among statements 1..n
NumQ(n) == Cardinality({i \in 1..n : statements[i].tag = "q"})

\* the last let of name before statement i, 0 if there is none
LastLet(i, name) ==
    LET lets == {j \in 1..i - 1 :
                    statements[j].tag = "let" /\ statements[j].name = name}
    IN  IF lets = {} THEN 0 ELSE CHOOSE j \in lets : \A k \in lets : k <= j

\* the value an expression of statement i stands for: a reference stands for
\* what the last let before statement i bound, as that let saw it
RECURSIVE RefValue(_, _)
RefValue(i, node) ==
    IF node.tag = "var"
    THEN IF LastLet(i, node.name) = 0 THEN None
         ELSE RefValue(LastLet(i, node.name),
                       statements[LastLet(i, node.name)].arg[1])
    ELSE IF node.tag = "dict"
    THEN DictNode([k \in DOMAIN node.ents |->
                      [key |-> node.ents[k].key,
                       val |-> RefValue(i, node.ents[k].val)]])
    ELSE node

\* the names referenced in a node, in source order
RECURSIVE VarNames(_)
RECURSIVE VarNamesOfEntries(_)
VarNames(node) ==
    IF node.tag = "var" THEN <<node.name>>
    ELSE IF node.tag = "dict" THEN VarNamesOfEntries(node.ents)
    ELSE IF node.tag \in {"let", "q"} THEN VarNames(node.arg[1])
    ELSE <<>>

VarNamesOfEntries(e) ==
    IF e = <<>> THEN <<>>
    ELSE VarNames(e[1].val) \o VarNamesOfEntries(Tail(e))

Evaluating == phase \in {"eval", "eval_error", "done"}

----------------------------------------------------------------------------
(* C1. Two-phase abort: while parsing is under way, and for good once it   *)
(* has raised a syntax error, no statement has been evaluated, the         *)
(* environment is untouched and the output is empty, whatever q directives *)
(* have been parsed before the failure point; after a syntax error nothing *)
(* more happens; and evaluation starts only once the whole text has been   *)
(* parsed without error.                                                   *)
C1_TwoPhaseAbort ==
    /\ phase \in {"parse", "parse_error"} =>
           out = <<>> /\ DOMAIN variables = {} /\ idx = 0
    /\ phase = "parse_error" => err.kind = "syntax" /\ ~ENABLED Next
    /\ Evaluating => pos = Len(text) /\ err.kind # "syntax"

\* a syntax error after a let and a q directive were parsed
C1_Witness ==
    /\ phase = "parse_error"
    /\ Len(statements) >= 2
    /\ statements[1].tag = "let"
    /\ statements[2].tag = "q"
    /\ out = <<>>

(* C2. Sequential rebinding: every value emitted by a q directive and      *)
(* every value stored in the environment is the one its references stood   *)
(* for when its statement was evaluated (the last let before that          *)
(* statement), whatever lets for the same names were evaluated later.      *)
C2_SequentialRebinding ==
    /\ \A i \in 1..idx :
           statements[i].tag = "q" =>
               /\ NumQ(i) \in DOMAIN out
               /\ out[NumQ(i)] = yaml_dump(RefValue(i, statements[i].arg[1]))
    /\ \A name \in DOMAIN variables :
           /\ LastLet(idx + 1, name) > 0
           /\ variables[name] =
                  RefValue(LastLet(idx + 1, name),
                           statements[LastLet(idx + 1, name)].arg[1])

\* let x=1, q($[x]), let x=2 evaluated: 1 was emitted and x is now 2
C2_Witness ==
    /\ idx = 3
    /\ statements[3].tag = "let"
    /\ out = <<IntNode(1)>>
    /\ <<"x">> \in DOMAIN variables
    /\ variables[<<"x">>] = IntNode(2)

(* C3. Evaluation fail-fast with committed prefix: when the evaluation of  *)
(* statement k = idx + 1 has failed, the output holds exactly the values   *)
(* of the q directives among statements 1..k-1, in order (so statement k   *)
(* emitted nothing), and nothing more happens: no later statement is       *)
(* evaluated, the output and the environment stay as they are.             *)
C3_FailFast ==
    phase = "eval_error" =>
        /\ idx < Len(statements)
        /\ Len(out) = NumQ(idx)
        /\ \A i \in 1..idx :
               statements[i].tag = "q" =>
                   out[NumQ(i)] = yaml_dump(RefValue(i, statements[i].arg[1]))
        /\ ~ENABLED Next

\* statement 2 failed after statement 1 emitted, with a statement 3 behind it
C3_Witness ==
    /\ phase = "eval_error"
    /\ idx = 1
    /\ Len(out) = 1
    /\ Len(statements) = 3

\* the key order of a document is that of a value, at every nesting level
RECURSIVE SameKeyOrder(_, _)
SameKeyOrder(doc, value) ==
    value.tag = "dict" =>
        /\ doc.tag = "dict"
        /\ Keys(doc.ents) = Keys(value.ents)
        /\ \A k \in DOMAIN value.ents :
               SameKeyOrder(doc.ents[k].val, value.ents[k].val)

(* C4. Dict order preservation: the document a q directive emits for a     *)
(* dict literal lists the keys in the order of the source, at every        *)
(* nesting level.                                                          *)
C4_DictOrderPreserved ==
    \A i \in 1..idx :
        (/\ statements[i].tag = "q"
         /\ statements[i].arg[1].tag = "dict"
         /\ NumQ(i) \in DOMAIN out) =>
            SameKeyOrder(out[NumQ(i)], RefValue(i, statements[i].arg[1]))

\* the referenced names of a statement that have no binding in env
Unbound(env, node) == SelectSeq(VarNames(node), LAMBDA n : n \notin DOMAIN env)

(* C5. Undefined-variable failure: evaluating a let, a q directive or a    *)
(* top-level reference that references, at any depth, a name with no       *)
(* current binding fails with the undefined-variable error, which names    *)
(* the first such name in source order; the step emits nothing and binds   *)
(* nothing.                                                                *)
C5_UndefinedVariable ==
    [][(/\ phase = "eval"
        /\ idx < Len(statements)
        /\ statements[idx + 1].tag \in {"let", "q", "var"}
        /\ Unbound(variables, statements[idx + 1]) # <<>>) =>
           /\ phase' = "eval_error"
           /\ err'.kind = "undefined"
           /\ err'.name = Unbound(variables, statements[idx + 1])[1]
           /\ out' = out
           /\ variables' = variables
           /\ idx' = idx]_vars

\* a let whose dict value references an unbound name has failed
C5_Witness ==
    /\ phase = "eval_error"
    /\ err.kind = "undefined"
    /\ statements[idx + 1].tag = "let"
    /\ statements[idx + 1].arg[1].tag = "dict"
    /\ statements[idx + 1].name \notin DOMAIN variables

\* a value with its references replaced by what env binds them to
RECURSIVE Subst(_, _)
Subst(env, node) ==
    IF node.tag = "var"
    THEN IF node.name \in DOMAIN env THEN env[node.name] ELSE None
    ELSE IF node.tag = "dict"
    THEN DictNode([k \in DOMAIN node.ents |->
                      [key |-> node.ents[k].key,
                       val |-> Subst(env, node.ents[k].val)]])
    ELSE node

\* the environment built by the let statements before statement i
RECURSIVE EnvBefore(_)
EnvBefore(i) ==
    IF i <= 1 THEN <<>>
    ELSE LET e == EnvBefore(i - 1)
             s == statements[i - 1]
         IN  IF s.tag = "let"
             THEN [n \in DOMAIN e \cup {s.name} |->
                      IF n = s.name THEN Subst(e, s.arg[1]) ELSE e[n]]
             ELSE e

\* the statement that is the n-th q directive
QAt(n) == CHOOSE i \in DOMAIN statements :
              statements[i].tag = "q" /\ NumQ(i) = n

(* C6. Output sequence on success: after a run that parsed and evaluated   *)
(* everything, the output has one entry per q directive, in source order,  *)
(* the n-th being the document of the n-th directive's value under the     *)
(* environment built by the lets before it.                                *)
C6_OutputSequence ==
    phase = "done" =>
        /\ Len(out) = NumQ(Len(statements))
        /\ \A n \in 1..Len(out) :
               out[n] = yaml_dump(Subst(EnvBefore(QAt(n)),
                                        statements[QAt(n)].arg[1]))

\* a finished run with two different documents
C6_Witness ==
    /\ phase = "done"
    /\ Len(out) = 2
    /\ out[1] # out[2]

(* C7. A bare value statement is resolved when it is evaluated: a bare     *)
(* dict literal gets past evaluation only if every reference nested in it  *)
(* had a binding at that moment, as inside a let or a q.                   *)
C7_BareValueResolved ==
    \A i \in 1..idx :
        statements[i].tag = "dict" =>
            \A k \in DOMAIN VarNames(statements[i]) :
                LastLet(i, VarNames(statements[i])[k]) > 0

(* C8. Frame of evaluation: the environment changes only in the            *)
(* evaluation of a let, and then only at the bound name; a q directive     *)
(* leaves the environment as it is; a bare expression that succeeds        *)
(* leaves the environment and the output as they are.                      *)
C8_Frame ==
    [][/\ variables' # variables =>
              /\ phase = "eval"
              /\ idx < Len(statements)
              /\ statements[idx + 1].tag = "let"
              /\ DOMAIN variables' =
                     DOMAIN variables \cup {statements[idx + 1].name}
              /\ \A n \in DOMAIN variables \ {statements[idx + 1].name} :
                     variables'[n] = variables[n]
       /\ (phase = "eval" /\ idx' = idx + 1) =>
              /\ statements[idx + 1].tag = "q" => variables' = variables
              /\ statements[idx + 1].tag \notin {"let", "q"} =>
                     variables' = variables /\ out' = out]_vars

\* a bare reference and a let for a second name were evaluated
C8_Witness ==
    /\ idx = 3
    /\ statements[2].tag = "var"
    /\ statements[3].tag = "let"
    /\ Cardinality(DOMAIN variables) = 2

NewlinesIn(n) == Cardinality({i \in 1..n : text[i] = "\n"})

\* the index of the last newline among the first n characters, 0 if none
LastNewline(n) ==
    LET nl == {i \in 1..n : text[i] = "\n"}
    IN  IF nl = {} THEN 0 ELSE CHOOSE i \in nl : \A j \in nl : j <= i

(* C9. Position bookkeeping: the tracked line is 1 plus the number of      *)
(* newlines in the consumed prefix text[0:pos] and the tracked column is   *)
(* 1 plus the number of characters consumed since the last newline,        *)
(* whatever was consumed; so a syntax error carries the true location of   *)
(* the cursor.                                                             *)
C9_PositionBookkeeping ==
    /\ line = 1 + NewlinesIn(pos)
    /\ col = 1 + pos - LastNewline(pos)
    /\ err.kind = "syntax" => err.line = line /\ err.col = col

\* the index of the first double quote of the text, 0 if none
FirstQuote ==
    LET qs == {i \in DOMAIN text : text[i] = "\""}
    IN  IF qs = {} THEN 0 ELSE CHOOSE i \in qs : \A j \in qs : i <= j

\* the number of backslashes in a row just before index j of the literal
BackslashRun(j) ==
    LET runs == {k \in 0..j : \A m \in 1..k :
                    j - m > FirstQuote /\ text[j - m] = "\\"}
    IN  CHOOSE k \in runs : \A l \in runs : l <= k

\* the first quote after the opening one with an even run of backslashes
\* before it, 0 if none
CloseQuote ==
    LET qs == {j \in FirstQuote + 1..Len(text) :
                  text[j] = "\"" /\ BackslashRun(j) % 2 = 0}
    IN  IF qs = {} THEN 0 ELSE CHOOSE j \in qs : \A l \in qs : j <= l

\* the source characters between the opening and the closing quote
Body == SubSeq(text, FirstQuote + 1, CloseQuote - 1)

\* the text starts, after whitespace, with a string literal
BareString ==
    /\ FirstQuote > 0
    /\ \A i \in 1..FirstQuote - 1 : isspace(text[i])

(* C10. String escape passthrough: a string literal ends at the first      *)
(* quote that has an even number of backslashes in a row before it (each   *)
(* backslash takes the next character with it), and the stored value is    *)
(* exactly the source characters between the two quotes, backslashes       *)
(* included and undecoded; checked for the literal that begins the text,   *)
(* bare or as the argument of q.                                           *)
C10_StringPassthrough ==
    /\ (BareString /\ CloseQuote > 0 /\ (statements # <<>> \/ phase # "parse")) =>
           statements # <<>> /\ statements[1] = StrNode(Body)
    /\ (BareString /\ statements # <<>>) =>
           CloseQuote > 0 /\ statements[1] = StrNode(Body)
    /\ (statements # <<>> /\ statements[1].tag = "q"
            /\ statements[1].arg[1].tag = "str") =>
           CloseQuote > 0 /\ statements[1].arg[1] = StrNode(Body)

\* q("a\"b") was parsed: one literal holding a, backslash, quote, b
C10_Witness ==
    /\ statements # <<>>
    /\ statements[1] = QNode(StrNode(<<"a", "\\", "\"", "b">>))

(* C11. Unterminated string: when the text starts with a string literal    *)
(* whose opening quote is followed by no quote with an even run of         *)
(* backslashes before it (the input ends first, be it right after a        *)
(* backslash or after a quote that a backslash escapes), parsing raises    *)
(* the unterminated-string syntax error, no statement is produced and the  *)
(* statement list is never returned.                                       *)
C11_UnterminatedString ==
    (BareString /\ CloseQuote = 0 /\ (statements # <<>> \/ phase # "parse")) =>
        /\ phase = "parse_error"
        /\ err.kind = "syntax"
        /\ err.what = "unterminated"
        /\ statements = <<>>
        /\ out = <<>>

\* the unterminated-string error on a literal whose last quote is escaped
C11_Witness ==
    /\ phase = "parse_error"
    /\ err.what = "unterminated"
    /\ BareString
    /\ Len(text) > FirstQuote + 1
    /\ text[Len(text)] = "\""
    /\ text[Len(text) - 1] = "\\"

\* a value with no variable reference at any depth: an int, a str, or a dict
\* whose entry values are all such values
RECURSIVE Resolved(_)
Resolved(v) ==
    \/ v.tag \in {"int", "str"}
    \/ /\ v.tag = "dict"
       /\ \A k \in DOMAIN v.ents : Resolved(v.ents[k].val)

(* C17. Resolved-value invariant: every value stored in the environment    *)
(* and every value handed to the serializer is fully resolved, it holds no *)
(* variable-reference node at any depth.                                   *)
C17_ResolvedValues ==
    /\ \A name \in DOMAIN variables : Resolved(variables[name])
    /\ \A n \in DOMAIN out : Resolved(out[n])

\* a dict with a reference entry was bound and a dict with nested references
\* was printed
C17_Witness ==
    /\ \E n \in DOMAIN variables :
          /\ variables[n].tag = "dict"
          /\ \E i \in 1..idx :
                /\ statements[i].tag = "let"
                /\ statements[i].name = n
                /\ VarNames(statements[i]) # <<>>
    /\ \E n \in DOMAIN out :
          /\ out[n].tag = "dict"
          /\ \E k \in DOMAIN out[n].ents : out[n].ents[k].val.tag = "dict"

----------------------------------------------------------------------------
(* Parser(content).parse_all() alone, on texts built from pieces of dict   *)
(* literals and on texts that put a short tail in each value position.     *)

RECURSIVE Join(_, _)
Join(pool, choice) ==
    IF choice = <<>> THEN <<>>
    ELSE pool[Head(choice)] \o Join(pool, Tail(choice))

Choices(pool, n) == UNION {[1..k -> DOMAIN pool] : k \in 0..n}

DictPieces == <<
    \* a=>1
    <<"a", "=", ">", "1">>,
    \* ,b=>3
    <<",", "b", "=", ">", "3">>,
    \* ,a=>2
    <<",", "a", "=", ">", "2">>,
    <<",">>,
    <<"}">>,
    <<" ">> >>

\* an opening brace and up to MaxPieces pieces
DictTexts ==
    {<<"{">> \o Join(DictPieces, c) : c \in Choices(DictPieces, MaxPieces)}

\* what stands before each value position: nothing (a bare statement),
\* let x= , q( , {k=>
ValuePrefixes == {
    <<>>,
    <<"l", "e", "t", " ", "x", "=">>,
    <<"q", "(">>,
    <<"{", "k", "=", ">">> }

ValuePieces == <<
    <<"-">>, <<"5">>, <<"\"">>, <<"{">>, <<"}">>,
    \* $[a]
    <<"$", "[", "a", "]">>,
    <<" ">>, <<")">>, <<"a">> >>

ValueTexts ==
    {pre \o Join(ValuePieces, c) :
        pre \in ValuePrefixes, c \in Choices(ValuePieces, MaxTail)}

InitParse ==
    /\ text \in DictTexts \cup ValueTexts
    /\ pos = 0
    /\ line = 1
    /\ col = 1
    /\ statements = <<>>
    /\ phase = "parse"
    /\ variables = <<>>
    /\ idx = 0
    /\ out = <<>>
    /\ err = NoError

NextParse ==
    \/ ParseStatement
    \/ ParseError
    \/ ParseReturn

\* parse_all runs on: a turn of its loop that can be taken is taken
SpecParse == InitParse /\ [][NextParse]_vars /\ WF_vars(NextParse)

\* parse_all has taken its first turn
FirstTurnDone == statements # <<>> \/ phase # "parse"

DictChars == {"{", "}", ",", "a", "b", "=", ">", "1", "2", "3", " "}

\* the text is an opening brace followed by characters of dict literals whose
\* values are numbers
IsDictText ==
    /\ text # <<>>
    /\ text[1] = "{"
    /\ \A i \in DOMAIN text : text[i] \in DictChars

(* The literals of the claim, read off the grammar and not off parse_dict: *)
(* '{', then nothing or 'identifier => number' entries with exactly one    *)
(* comma between consecutive entries, then '}', blanks allowed between     *)
(* tokens.  DictScan reads the text from character i in the state st of    *)
(* this automaton and tells whether a closing brace is reached.            *)
RECURSIVE DictScan(_, _)
DictScan(i, st) ==
    IF i > Len(text) THEN FALSE
    ELSE LET c == text[i]
         IN  CASE st = "open" ->
                    IF c = " " THEN DictScan(i + 1, "open")
                    ELSE IF c = "}" THEN TRUE
                    ELSE IF isident(c) THEN DictScan(i + 1, "key")
                    ELSE FALSE
               [] st = "comma" ->
                    IF c = " " THEN DictScan(i + 1, "comma")
                    ELSE IF isident(c) THEN DictScan(i + 1, "key")
                    ELSE FALSE
               [] st = "key" ->
                    IF isident(c) THEN DictScan(i + 1, "key")
                    ELSE IF c = " " THEN DictScan(i + 1, "afterkey")
                    ELSE IF c = "=" THEN DictScan(i + 1, "eq")
                    ELSE FALSE
               [] st = "afterkey" ->
                    IF c = " " THEN DictScan(i + 1, "afterkey")
                    ELSE IF c = "=" THEN DictScan(i + 1, "eq")
                    ELSE FALSE
               [] st = "eq" ->
                    IF c = ">" THEN DictScan(i + 1, "arrow") ELSE FALSE
               [] st = "arrow" ->
                    IF c = " " THEN DictScan(i + 1, "arrow")
                    ELSE IF isdigit(c) THEN DictScan(i + 1, "num")
                    ELSE FALSE
               [] st = "num" ->
                    IF isdigit(c) THEN DictScan(i + 1, "num")
                    ELSE IF c = " " THEN DictScan(i + 1, "afternum")
                    ELSE IF c = "," THEN DictScan(i + 1, "comma")
                    ELSE IF c = "}" THEN TRUE
                    ELSE FALSE
               [] st = "afternum" ->
                    IF c = " " THEN DictScan(i + 1, "afternum")
                    ELSE IF c = "," THEN DictScan(i + 1, "comma")
                    ELSE IF c = "}" THEN TRUE
                    ELSE FALSE

WellFormedDict == DictScan(2, "open")

(* C12. Dict comma discipline: a text that opens a dict literal (entries   *)
(* with number values) is parsed into a dict exactly when it is '{', zero  *)
(* or more 'identifier => value' entries with exactly one comma between    *)
(* consecutive entries, and '}'; otherwise (a comma before the first       *)
(* entry, a trailing comma before '}', a missing or doubled comma, end of  *)
(* input before '}') a syntax error is raised and no statement is made.    *)
C12_DictCommaDiscipline ==
    (IsDictText /\ FirstTurnDone) =>
        IF WellFormedDict
        THEN /\ statements # <<>>
             /\ statements[1].tag = "dict"
        ELSE /\ phase = "parse_error"
             /\ err.kind = "syntax"
             /\ statements = <<>>

\* the trailing comma of {a=>1,b=>3,} raised the error at the closing brace
C12_Witness ==
    /\ text = <<"{">> \o DictPieces[1] \o DictPieces[2] \o <<",", "}">>
    /\ phase = "parse_error"
    /\ pos = Len(text) - 1
    /\ statements = <<>>

HasPrefix(pre) == Len(text) >= Len(pre) /\ SubSeq(text, 1, Len(pre)) = pre

\* the number of characters before the first value position of the text:
\* after 'let x=', after 'q(', after '{k=>', or none (a bare statement)
PrefixLen ==
    IF \E pre \in ValuePrefixes : pre # <<>> /\ HasPrefix(pre)
    THEN Len(CHOOSE pre \in ValuePrefixes : pre # <<>> /\ HasPrefix(pre))
    ELSE 0

\* the offset of the first non-whitespace character of the value position,
\* Len(text) if there is none
ValuePos ==
    CHOOSE v \in PrefixLen..Len(text) :
        /\ \A i \in (PrefixLen + 1)..v : isspace(text[i])
        /\ v = Len(text) \/ ~isspace(text[v + 1])

ValueTag(c) ==
    IF isdigit(c) THEN "int"
    ELSE IF c = "\"" THEN "str"
    ELSE IF c = "{" THEN "dict"
    ELSE IF c = "$" THEN "var"
    ELSE "none"

\* the value parsed in the first value position of the first statement
FirstValue ==
    IF PrefixLen = 0 THEN statements[1]
    ELSE IF statements[1].tag \in {"let", "q"} THEN statements[1].arg[1]
    ELSE statements[1].ents[1].val

(* C13. Value dispatch and number restriction: in a value position (right  *)
(* side of let, argument of q, dict entry value, a bare statement where a  *)
(* statement begins) the first non-whitespace character alone chooses the  *)
(* production: a digit gives a number, a double quote a string, '{' a      *)
(* dict, '$' a reference, and an error of the chosen production comes      *)
(* after that character is consumed; any other character, '-' included,    *)
(* raises the syntax error with the cursor left on it; end of input where  *)
(* a value must stand raises a syntax error.                               *)
C13_ValueDispatch ==
    FirstTurnDone =>
        LET v == ValuePos
        IN  IF v = Len(text)
            THEN PrefixLen > 0 =>
                    /\ phase = "parse_error"
                    /\ err.kind = "syntax"
                    /\ err.what = "eof"
                    /\ statements = <<>>
                    /\ pos = v
            ELSE IF ValueTag(text[v + 1]) = "none"
            THEN /\ phase = "parse_error"
                 /\ err.kind = "syntax"
                 /\ err.what = "value"
                 /\ statements = <<>>
                 /\ pos = v
            ELSE /\ statements # <<>> =>
                        FirstValue.tag = ValueTag(text[v + 1])
                 /\ statements = <<>> =>
                        /\ phase = "parse_error"
                        /\ err.kind = "syntax"
                        /\ pos > v

\* let x= -5 raised the error with the cursor on the minus sign
C13_Witness ==
    /\ text = <<"l", "e", "t", " ", "x", "=", " ", "-", "5">>
    /\ phase = "parse_error"
    /\ err.what = "value"
    /\ pos = 7

\* the closing brace of a dict literal whose values are numbers
CloseBrace == CHOOSE i \in DOMAIN text :
    text[i] = "}" /\ \A j \in 1..(i - 1) : text[j] # "}"

\* where the keys of the literal begin
KeyStarts ==
    {i \in 2..CloseBrace : isident(text[i]) /\ ~isident(text[i - 1])}

\* the last character of the run of characters of one kind that begins at i
RunEnd(i, kind(_)) ==
    CHOOSE j \in i..Len(text) :
        /\ \A k \in i..j : kind(text[k])
        /\ j = Len(text) \/ ~kind(text[j + 1])

KeyAt(i) == SubSeq(text, i, RunEnd(i, isident))

\* the number written after the key that begins at i
NumberAfter(i) ==
    LET d == CHOOSE d \in i..Len(text) :
                 isdigit(text[d]) /\ \A j \in i..(d - 1) : ~isdigit(text[j])
    IN  int(SubSeq(text, d, RunEnd(d, isdigit)))

FirstOccurrence(key) ==
    CHOOSE i \in KeyStarts :
        KeyAt(i) = key /\ \A j \in KeyStarts : KeyAt(j) = key => i <= j

LastOccurrence(key) ==
    CHOOSE i \in KeyStarts :
        KeyAt(i) = key /\ \A j \in KeyStarts : KeyAt(j) = key => j <= i

(* C14. Duplicate dict keys: a well-formed dict literal parses, keys       *)
(* written more than once included; the dict has exactly one entry for     *)
(* each key written, the entry holds the value of the key's last           *)
(* occurrence, and the entries stand in the order of the keys' first       *)
(* occurrences.                                                            *)
C14_DuplicateKeys ==
    (IsDictText /\ WellFormedDict /\ FirstTurnDone) =>
        /\ statements # <<>>
        /\ statements[1].tag = "dict"
        /\ LET ents == statements[1].ents
           IN  /\ {ents[n].key : n \in DOMAIN ents} =
                      {KeyAt(i) : i \in KeyStarts}
               /\ \A m, n \in DOMAIN ents :
                      /\ m # n => ents[m].key # ents[n].key
                      /\ m < n => FirstOccurrence(ents[m].key) <
                                      FirstOccurrence(ents[n].key)
               /\ \A n \in DOMAIN ents :
                      ents[n].val =
                          IntNode(NumberAfter(LastOccurrence(ents[n].key)))

\* {a=>1,b=>3,a=>2} was parsed into a=>2, b=>3
C14_Witness ==
    /\ text = <<"{">> \o DictPieces[1] \o DictPieces[2] \o DictPieces[3]
                  \o <<"}">>
    /\ statements =
           <<DictNode(<<[key |-> <<"a">>, val |-> IntNode(2)],
                        [key |-> <<"b">>, val |-> IntNode(3)]>>)>>

(* C18. Parser progress and termination: on every input parse_all ends,    *)
(* by raising a syntax error or by returning the statement list; every     *)
(* statement it appends has consumed at least one non-whitespace           *)
(* character; and when it returns the whole input is consumed,             *)
(* pos = len(text), so no trailing text is ignored.                        *)
C18_ParserProgress ==
    /\ <>(phase \in {"parse_error", "eval"})
    /\ [](phase = "eval" => pos = Len(text))
    /\ [][Len(statements') > Len(statements) =>
              /\ pos' > pos
              /\ \E i \in (pos + 1)..pos' : ~isspace(text[i])]_vars

\* parse_all returned two statements or more after blanks, at the end of
\* the text
C18_Witness ==
    /\ phase = "eval"
    /\ Len(statements) >= 2
    /\ pos = Len(text)
    /\ isspace(text[Len(text)])

----------------------------------------------------------------------------
(* Interpreter().evaluate(stmt) for each statement of a list of trees      *)
(* handed to it directly, trees the parser does not build included.        *)

\* a tagged node whose tag is none of let, q, var: the tuple ('foo',)
Unknown == [Blank EXCEPT !.tag = "foo"]

AstPool == <<
    LetNode(<<"x">>, IntNode(1)),
    QNode(VarNode(<<"x">>)),
    VarNode(<<"x">>),
    QNode(DictNode(<<[key |-> <<"k">>, val |-> VarNode(<<"x">>)]>>)),
    Unknown,
    LetNode(<<"x">>, Unknown),
    QNode(Unknown),
    LetNode(<<"y">>, DictNode(<<[key |-> <<"k">>, val |-> Unknown]>>)) >>

AstLists ==
    UNION {[1..n -> Range(AstPool)] : n \in 0..MaxAst}

InitAst ==
    /\ text = <<>>
    /\ pos = 0
    /\ line = 1
    /\ col = 1
    /\ statements \in AstLists
    /\ phase = "eval"
    /\ variables = <<>>
    /\ idx = 0
    /\ out = <<>>
    /\ err = NoError

NextAst ==
    \/ Evaluate
    \/ EvalError
    \/ Exit

SpecAst == InitAst /\ [][NextAst]_vars

\* the tree holds, at any depth, a tagged node with an unrecognised tag
RECURSIVE HasUnknown(_)
HasUnknown(node) ==
    \/ node.tag \notin {"None", "int", "str", "dict", "var", "let", "q"}
    \/ \E k \in DOMAIN node.arg : HasUnknown(node.arg[k])
    \/ \E k \in DOMAIN node.ents : HasUnknown(node.ents[k].val)

(* C15. Unknown-node rejection: a statement tree that holds a node with an *)
(* unrecognised tag, be it the statement itself or the value of a let, the *)
(* argument of a q or a dict entry value, is never evaluated to its end:   *)
(* evaluation stops on it with the unknown-node error, and it produces no  *)
(* output and no binding.                                                  *)
C15_UnknownNodeRejected ==
    \A i \in DOMAIN statements :
        HasUnknown(statements[i]) =>
            /\ idx < i
            /\ (phase = "eval_error" /\ idx = i - 1) =>
                   err.kind = "unknown_node"

----------------------------------------------------------------------------
(* The Parser's methods one at a time: from the cursor it has reached, any *)
(* method may be called; it leaves the cursor where it returned or raised. *)

OpsPieces == <<
    <<"\n", " ">>,
    <<"5">>,
    \* "a\
    <<"\"", "a", "\\">>,
    <<"\"">>,
    \* {k=>
    <<"{", "k", "=", ">">>,
    <<"}">>,
    \* $[a]
    <<"$", "[", "a", "]">>,
    \* let x=
    <<"l", "e", "t", " ", "x", "=">>,
    <<"q", "(">>,
    <<")">> >>

OpsTexts == {Join(OpsPieces, c) : c \in Choices(OpsPieces, MaxOps)}

\* the patterns the methods pass to match
Patterns == {"\\d+", "[_a-z]+", "\"", "{", "}", ",", "=>", "=", "let",
             "q\\(", "\\)", "\\$", "\\[", "\\]"}

InitOps ==
    /\ text \in OpsTexts
    /\ pos = 0
    /\ line = 1
    /\ col = 1
    /\ statements = <<>>
    /\ phase = "parse"
    /\ variables = <<>>
    /\ idx = 0
    /\ out = <<>>
    /\ err = NoError

\* a method has returned or raised r
Leave(r) ==
    /\ MoveTo(r.p)
    /\ IF r.ok
       THEN UNCHANGED <<phase, err>>
       ELSE phase' = "parse_error" /\ err' = SyntaxError(r.p, r.what)
    /\ UNCHANGED <<text, statements, variables, idx, out>>

OpSkipWhitespace ==
    phase = "parse" /\ Leave(Ok(skip_whitespace(Here), None))

OpMatch == phase = "parse" /\ \E pattern \in Patterns : Leave(match(Here, pattern))

OpParseNumber == phase = "parse" /\ Leave(parse_number(Here))

OpParseIdentifier == phase = "parse" /\ Leave(parse_identifier(Here))

OpParseString == phase = "parse" /\ Leave(parse_string(Here))

OpParseDict == phase = "parse" /\ Leave(parse_dict(Here))

OpParseValue == phase = "parse" /\ Leave(parse_value(Here))

OpParseVar == phase = "parse" /\ Leave(parse_var(Here))

OpParseLet == phase = "parse" /\ Leave(parse_let(Here))

OpParseQ == phase = "parse" /\ Leave(parse_q(Here))

OpParseExpression == phase = "parse" /\ Leave(parse_expression(Here))

OpParseStatement == phase = "parse" /\ Leave(parse_statement(Here))

NextOps ==
    \/ OpSkipWhitespace
    \/ OpMatch
    \/ OpParseNumber
    \/ OpParseIdentifier
    \/ OpParseString
    \/ OpParseDict
    \/ OpParseValue
    \/ OpParseVar
    \/ OpParseLet
    \/ OpParseQ
    \/ OpParseExpression
    \/ OpParseStatement

SpecOps == InitOps /\ [][NextOps]_vars

(* C16. No rewind: across every parser operation (skip_whitespace, match,  *)
(* parse_number, parse_identifier, parse_string, parse_dict, parse_var,    *)
(* parse_let, parse_q, parse_statement) the cursor offset never decreases  *)
(* and the line never decreases, and 0 <= pos <= len(text) holds in every  *)
(* state the parser reaches, the states in which an error is raised        *)
(* included.                                                               *)
C16_NoRewind ==
    /\ [](0 <= pos /\ pos <= Len(text))
    /\ [][pos' >= pos /\ line' >= line]_vars

\* parse_string raised at the very end of a text whose last character is a
\* backslash, after a line break was passed
C16_Witness ==
    /\ phase = "parse_error"
    /\ err.what = "unterminated"
    /\ Len(text) > 0
    /\ pos = Len(text)
    /\ text[Len(text)] = "\\"
    /\ line > 1

====
